---- MODULE Spec2Model ----
(***************************************************************************)
(* A model of codes/model.py (class KGEModel): the constructor and its     *)
(* configuration checks, forward and its dispatch to the scoring           *)
(* functions, train_step, test_step and its ranking stage, and the         *)
(* scoring and loss arithmetic.                                            *)
(*                                                                         *)
(* Four specifications:                                                    *)
(*   Spec      the object's life: Construct, then any sequence of forward, *)
(*             train_step and test_step calls, each call split at the      *)
(*             statements that can raise;                                  *)
(*   RankSpec  the ranking stage of test_step (lines 470-506) as a         *)
(*             function of one example's score row, filter bias and true   *)
(*             entity;                                                     *)
(*   ScoreSpec DistMult and ComplEx (lines 258-265, 285-300) as functions  *)
(*             of one triple's embedding vectors;                          *)
(*   LossSpec  the loss assembly of train_step (lines 372-390) as a        *)
(*             function of the scores of one batch.                        *)
(* Tensors of reals are modelled by integers: embedding components and     *)
(* scores are small integers, logsigmoid and exp are tabulated in tenths,  *)
(* and quotients are kept as reduced fractions <<numerator, denominator>>. *)
(***************************************************************************)
EXTENDS Integers, Sequences, FiniteSets

VARIABLES
    \* ---- the KGEModel object and the call in progress (Spec)
    pc,                        \* position of the program
    err,                       \* exception that ended the last call, or "none"
    model_name,
    double_entity_embedding,
    double_relation_embedding,
    double_tem_embedding,
    hidden_dim,
    gamma,
    embedding_range,
    entity_embedding,          \* content of the entity table
    relation_embedding,        \* content of the relation table
    tem_embedding,             \* content of the time-token table
    train_iterator,            \* batches the iterator still yields
    batch,                     \* the batch next(train_iterator) returned
    done,                      \* statements of the current train_step completed
    optSteps,                  \* optimizer.step() calls of the current train_step
    atStart,                   \* tables, gamma, embedding_range when the call began
    fwd,                       \* the last forward call: mode given, result
    test_triples,              \* number of test triples of the current test_step
    test_dataset_list,         \* batches still to evaluate: their modes, in order
    engineModes,               \* <<batch mode, mode forward ran in>> per scored batch
    \* ---- one example of the ranking stage (RankSpec)
    score,                     \* raw score row of the example, by entity id
    filter_bias,
    positive_arg,
    argsort,
    ranking,
    logs,
    metrics,
    \* ---- one triple's embeddings (ScoreSpec)
    head, relation, tail,
    scores,
    \* ---- one training batch's scores (LossSpec)
    negative_score,
    positive_score,
    subsampling_weight,
    args,
    log

progVars == <<pc, err, model_name, double_entity_embedding,
              double_relation_embedding, double_tem_embedding, hidden_dim,
              gamma, embedding_range, entity_embedding, relation_embedding,
              tem_embedding, train_iterator, batch, done, optSteps, atStart,
              fwd, test_triples, test_dataset_list, engineModes>>
rankVars == <<score, filter_bias, positive_arg, argsort, ranking, logs, metrics>>
scoreVars == <<head, relation, tail, scores>>
lossVars == <<negative_score, positive_score, subsampling_weight, args, log>>
vars == <<progVars, rankVars, scoreVars, lossVars>>

(***************************************************************************)
(* Bounds of the model.                                                    *)
(***************************************************************************)
MaxVal == 1          \* table contents are abstracted to 0..MaxVal
MaxBatches == 2      \* batches a train iterator yields before it is exhausted
MaxTest == 2         \* test triples of one test_step
NEntity == 3         \* entities (candidates of one example) in RankSpec
MaxScore == 2        \* raw scores of RankSpec are 0..MaxScore

TableVals == 0 .. MaxVal

(***************************************************************************)
(* Configuration.                                                          *)
(***************************************************************************)
epsilon == 2

\* the keys of model_func, which are the names the constructor accepts
ModelNames == {"TATransE", "TransE", "TADistMult", "DistMult", "ComplEx",
               "RotatE", "pRotatE"}
\* names a caller may hand to the constructor
GivenNames == ModelNames \cup {"HolE"}
HiddenDims == {1, 2}
Gammas == {6}
Modes == {"single", "head-batch", "tail-batch"}
GivenModes == Modes \cup {"both-batch"}

\* hidden_dim*2 if double_..._embedding else hidden_dim
Dim(hd, dbl) == IF dbl THEN hd * 2 ELSE hd

\* the checks with the RotatE condition joined by `and` instead of `or`
CtorCheckConjoined(name, de, dr) ==
    IF name \notin ModelNames THEN "ValueError"
    ELSE IF name = "RotatE" /\ (~de /\ dr) THEN "ValueError"
    ELSE IF name = "ComplEx" /\ (~de \/ ~dr) THEN "ValueError"
    ELSE "none"

\* the three checks that end the constructor, in their order
CtorCheck(name, de, dr) ==
    IF name \notin ModelNames THEN "ValueError"
    ELSE IF name = "RotatE" /\ (~de \/ dr) THEN "ValueError"
    ELSE IF name = "ComplEx" /\ (~de \/ ~dr) THEN "ValueError"
    ELSE "none"

(***************************************************************************)
(* forward.                                                                *)
(***************************************************************************)
\* parameters (after self) of each scoring function
NParams(name) ==
    IF name \in {"TATransE", "TADistMult"} THEN 5 ELSE 4

\* arguments of the call model_func[self.model_name](head, relation, tem, tail, mode)
NArgsPassed == 5

\* self.lstm (LSTMModel, of module LSTMLinear): the encoder returns the
\* hidden state, a vector of the width the scoring functions need
lstm(pos_seq_e) == "rseq"

\* get_rseq: torch.cat((pos_r_e, pos_tem_e), 1) needs equal widths; the
\* result is the encoder's hidden state
get_rseq(relation_dim, tem_dim) ==
    IF relation_dim = tem_dim THEN lstm("pos_seq_e") ELSE "RuntimeError"

\* The gathers of forward's mode branch.  An argument is "tensor" (a
\* well-formed tensor), "malformed" (a tensor of the wrong rank), "tuple",
\* "str" or "None".
Gather(sample_triple, sample_tem, negative_sample, mode) ==
    IF mode = "single" THEN
        IF sample_triple \in {"tuple", "str", "None"} THEN "AttributeError"
        ELSE IF sample_triple = "malformed" THEN "IndexError"
        ELSE IF sample_tem # "tensor" THEN "AttributeError"
        ELSE "gathered"
    ELSE IF mode \in {"head-batch", "tail-batch"} THEN
        IF negative_sample # "tensor" THEN "AttributeError"
        ELSE IF sample_triple = "malformed" THEN "IndexError"
        ELSE IF sample_triple # "tensor" THEN "TypeError"
        ELSE IF sample_tem # "tensor" THEN "AttributeError"
        ELSE "gathered"
    ELSE "ValueError"

\* the dispatch through model_func and the call of the scoring function
Dispatch(name, relation_dim, tem_dim) ==
    IF name \notin ModelNames THEN "ValueError"
    ELSE IF NParams(name) # NArgsPassed THEN "TypeError"
    ELSE IF get_rseq(relation_dim, tem_dim) # "rseq" THEN "RuntimeError"
    ELSE "score"

\* the result of forward: "score", or the exception it raises
Forward(sample_triple, sample_tem, negative_sample, mode) ==
    LET g == Gather(sample_triple, sample_tem, negative_sample, mode)
    IN  IF g # "gathered" THEN g
        ELSE Dispatch(model_name,
                      Dim(hidden_dim, double_relation_embedding),
                      Dim(hidden_dim, double_tem_embedding))

(***************************************************************************)
(* Fractions: <<n, d>> with d > 0, reduced.                                *)
(***************************************************************************)
Abs(x) == IF x < 0 THEN -x ELSE x

RECURSIVE GCD(_, _)
GCD(a, b) == IF b = 0 THEN a ELSE GCD(b, a % b)

Frac(n, d) ==
    LET g == GCD(Abs(n), Abs(d))
        sgn == IF d < 0 THEN -1 ELSE 1
    IN  IF n = 0 THEN <<0, 1>> ELSE <<sgn * (n \div g), sgn * (d \div g)>>

FracAdd(x, y) == Frac(x[1] * y[2] + y[1] * x[2], x[2] * y[2])
FracNeg(x) == <<-x[1], x[2]>>
FracMul(x, y) == Frac(x[1] * y[1], x[2] * y[2])
FracDiv(x, y) == Frac(x[1] * y[2], x[2] * y[1])
FracScale(k, x) == Frac(k * x[1], x[2])

RECURSIVE FracSum(_)
FracSum(seq) ==
    IF seq = <<>> THEN <<0, 1>> ELSE FracAdd(Head(seq), FracSum(Tail(seq)))

\* tensor.mean() of a sequence of fractions
FracMean(seq) == FracDiv(FracSum(seq), <<Len(seq), 1>>)

(***************************************************************************)
(* The ranking stage of test_step.                                         *)
(***************************************************************************)
Entities == 0 .. NEntity - 1
ScoreVals == 0 .. MaxScore
\* the filter bias a loader gives a candidate: 0, or -1 for a filtered one
BiasVals == {-1, 0}

\* the orders of the candidates S: the possible rows of an argsort result
Orders(S) == {p \in [1 .. Cardinality(S) -> S] :
                 \A i, j \in 1 .. Cardinality(S) : p[i] = p[j] => i = j}

\* score += filter_bias
AddFilterBias(s, bias) == [e \in Entities |-> s[e] + bias[e]]

\* the sort with descending=False
ArgsortAscending(S, s) ==
    {p \in Orders(S) : \A i, j \in 1 .. Len(p) : i < j => s[p[i]] <= s[p[j]]}

\* torch.argsort(score, dim = 1, descending=True) on the row of the
\* candidates S: the sort is not stable, so every descending order of the row
\* is a possible result
Argsort(S, s) ==
    {p \in Orders(S) : \A i, j \in 1 .. Len(p) : i < j => s[p[i]] >= s[p[j]]}

\* the positions whose score equals the true entity's score
NonzeroByScore(p, s, arg) == {i \in 0 .. Len(p) - 1 : s[p[i + 1]] = s[arg]}

\* (argsort[i, :] == positive_arg[i]).nonzero(): the 0-based positions of
\* the row that hold the true entity's id
Nonzero(p, s, arg) == {i \in 0 .. Len(p) - 1 : p[i + 1] = arg}

\* the position taken as the rank
RankingNoOffset(position) == position

\* ranking = 1 + ranking.item()
Ranking(position) == 1 + position

\* the record appended to logs
LogRecord(rk) ==
    [MRR |-> Frac(1, rk),
     MR |-> <<rk, 1>>,
     HITS1 |-> IF rk <= 1 THEN <<1, 1>> ELSE <<0, 1>>,
     HITS3 |-> IF rk <= 3 THEN <<1, 1>> ELSE <<0, 1>>,
     HITS10 |-> IF rk <= 10 THEN <<1, 1>> ELSE <<0, 1>>]

MetricNames == {"MRR", "MR", "HITS1", "HITS3", "HITS10"}

\* sum([log[metric] for log in logs])/len(logs)
MetricMean(ls, metric) ==
    FracMean([i \in 1 .. Len(ls) |-> ls[i][metric]])

NoMetrics == [m \in MetricNames |-> <<0, 1>>]

(***************************************************************************)
(* The states in which the other specifications' variables rest.           *)
(***************************************************************************)
RankIdle ==
    /\ score = <<>> /\ filter_bias = <<>> /\ positive_arg = 0
    /\ argsort = <<>> /\ ranking = 0 /\ logs = <<>> /\ metrics = NoMetrics
ScoreIdle == head = <<>> /\ relation = <<>> /\ tail = <<>> /\ scores = <<>>
LossIdle ==
    /\ negative_score = <<>> /\ positive_score = <<>>
    /\ subsampling_weight = <<>> /\ args = <<>> /\ log = <<>>

NoBatch == [mode |-> "none", positive_sample_triple |-> "none"]
NoForward == [mode |-> "none", result |-> "none"]

\* the values a frame condition is about
Snapshot ==
    <<entity_embedding, relation_embedding, tem_embedding, gamma, embedding_range>>

\* positions between two calls on a constructed model; a call starts with
\* fresh locals
Rest == {"idle", "forward_done", "train_returned", "train_failed",
         "test_returned", "test_failed"}

ProgInit ==
    /\ pc = "new" /\ err = "none" /\ model_name = "none"
    /\ double_entity_embedding = FALSE /\ double_relation_embedding = FALSE
    /\ double_tem_embedding = FALSE
    /\ hidden_dim = 1 /\ gamma = 0 /\ embedding_range = 0
    /\ entity_embedding = 0 /\ relation_embedding = 0 /\ tem_embedding = 0
    /\ train_iterator \in 0 .. MaxBatches
    /\ batch = NoBatch /\ done = {} /\ optSteps = 0
    /\ atStart = <<0, 0, 0, 0, 0>>
    /\ fwd = NoForward
    /\ test_triples = 0 /\ test_dataset_list = <<>> /\ engineModes = <<>>

Init == ProgInit /\ RankIdle /\ ScoreIdle /\ LossIdle

(***************************************************************************)
(* KGEModel.__init__                                                       *)
(***************************************************************************)
Construct ==
    /\ pc = "new"
    /\ \E name \in GivenNames, de, dr, dt \in BOOLEAN,
          hd \in HiddenDims, g \in Gammas :
          /\ model_name' = name
          /\ double_entity_embedding' = de
          /\ double_relation_embedding' = dr
          /\ double_tem_embedding' = dt
          /\ hidden_dim' = hd
          /\ gamma' = g
          /\ embedding_range' = (g + epsilon) \div hd
          /\ err' = CtorCheck(name, de, dr)
          /\ pc' = IF CtorCheck(name, de, dr) = "none" THEN "idle"
                   ELSE "ctor_failed"
    \* nn.init.uniform_ of the three tables
    /\ entity_embedding' \in TableVals
    /\ relation_embedding' \in TableVals
    /\ tem_embedding' \in TableVals
    /\ UNCHANGED <<train_iterator, batch, done, optSteps, atStart, fwd,
                   test_triples, test_dataset_list, engineModes>>
    /\ UNCHANGED <<rankVars, scoreVars, lossVars>>

(***************************************************************************)
(* A caller's forward on well-formed tensors, in the mode it names.        *)
(***************************************************************************)
ForwardCall ==
    /\ pc \in Rest
    /\ \E mode \in GivenModes :
          LET res == Forward("tensor", "tensor",
                             IF mode = "single" THEN "None" ELSE "tensor", mode)
          IN  /\ fwd' = [mode |-> mode, result |-> res]
              /\ err' = IF res = "score" THEN "none" ELSE res
    /\ pc' = "forward_done"
    /\ batch' = NoBatch /\ done' = {} /\ optSteps' = 0
    /\ atStart' = Snapshot
    /\ test_triples' = 0 /\ test_dataset_list' = <<>> /\ engineModes' = <<>>
    /\ UNCHANGED <<model_name, double_entity_embedding,
                   double_relation_embedding, double_tem_embedding, hidden_dim,
                   gamma, embedding_range, entity_embedding, relation_embedding,
                   tem_embedding, train_iterator>>
    /\ UNCHANGED <<rankVars, scoreVars, lossVars>>

(***************************************************************************)
(* KGEModel.train_step                                                     *)
(***************************************************************************)
config == <<model_name, double_entity_embedding, double_relation_embedding,
            double_tem_embedding, hidden_dim, gamma, embedding_range>>
tables == <<entity_embedding, relation_embedding, tem_embedding>>
testVars == <<test_triples, test_dataset_list, engineModes>>

\* model.train(); optimizer.zero_grad()
TrainStart ==
    /\ pc \in Rest
    /\ pc' = "train_next"
    /\ err' = "none"
    /\ done' = {}
    /\ optSteps' = 0
    /\ atStart' = Snapshot
    /\ batch' = NoBatch
    /\ fwd' = NoForward
    /\ test_triples' = 0 /\ test_dataset_list' = <<>> /\ engineModes' = <<>>
    /\ UNCHANGED <<config, tables, train_iterator>>
    /\ UNCHANGED <<rankVars, scoreVars, lossVars>>

\* ... = next(train_iterator)
TrainNext ==
    /\ pc = "train_next"
    /\ IF train_iterator = 0
       THEN /\ pc' = "train_failed"
            /\ err' = "StopIteration"
            /\ UNCHANGED <<train_iterator, batch>>
       ELSE /\ \E m \in {"head-batch", "tail-batch"},
                  shape \in {"tensor", "malformed"} :
                  batch' = [mode |-> m, positive_sample_triple |-> shape]
            /\ train_iterator' = train_iterator - 1
            /\ pc' = "train_negative"
            /\ UNCHANGED err
    /\ UNCHANGED <<config, tables, done, optSteps, atStart, fwd, testVars>>
    /\ UNCHANGED <<rankVars, scoreVars, lossVars>>

\* negative_score = model(positive_sample_triple, positive_sample_tem,
\*                        negative_sample, mode=mode)
TrainNegative ==
    /\ pc = "train_negative"
    /\ LET res == Forward(batch.positive_sample_triple, "tensor", "tensor",
                          batch.mode)
       IN  /\ fwd' = [mode |-> batch.mode, result |-> res]
           /\ IF res = "score"
              THEN /\ pc' = "train_positive"
                   /\ done' = done \cup {"negative"}
                   /\ UNCHANGED err
              ELSE /\ pc' = "train_failed"
                   /\ err' = res
                   /\ UNCHANGED done
    /\ UNCHANGED <<config, tables, train_iterator, batch, optSteps, atStart,
                   testVars>>
    /\ UNCHANGED <<rankVars, scoreVars, lossVars>>

\* positive_score = model(positive_sample_triple, positive_sample_tem)
TrainPositive ==
    /\ pc = "train_positive"
    /\ LET res == Forward(batch.positive_sample_triple, "tensor", "None",
                          "single")
       IN  /\ fwd' = [mode |-> "single", result |-> res]
           /\ IF res = "score"
              THEN /\ pc' = "train_loss"
                   /\ done' = done \cup {"positive"}
                   /\ UNCHANGED err
              ELSE /\ pc' = "train_failed"
                   /\ err' = res
                   /\ UNCHANGED done
    /\ UNCHANGED <<config, tables, train_iterator, batch, optSteps, atStart,
                   testVars>>
    /\ UNCHANGED <<rankVars, scoreVars, lossVars>>

\* the loss and the regularization: tensors local to the call (their values
\* are ComputeLoss, below)
TrainLoss ==
    /\ pc = "train_loss"
    /\ pc' = "train_backward"
    /\ done' = done \cup {"loss"}
    /\ UNCHANGED <<err, config, tables, train_iterator, batch, optSteps,
                   atStart, fwd, testVars>>
    /\ UNCHANGED <<rankVars, scoreVars, lossVars>>

\* loss.backward(): fills the gradients, leaves the parameters
TrainBackward ==
    /\ pc = "train_backward"
    /\ pc' = "train_optimizer"
    /\ done' = done \cup {"backward"}
    /\ UNCHANGED <<err, config, tables, train_iterator, batch, optSteps,
                   atStart, fwd, testVars>>
    /\ UNCHANGED <<rankVars, scoreVars, lossVars>>

\* optimizer.step() placed before loss.backward() as well
TrainOptimizerEarly ==
    /\ pc \in {"train_backward", "train_optimizer"}
    /\ pc' = IF pc = "train_backward" THEN "train_backward" ELSE "train_log"
    /\ entity_embedding' \in TableVals
    /\ relation_embedding' \in TableVals
    /\ tem_embedding' \in TableVals
    /\ optSteps' = optSteps + 1
    /\ optSteps < 2
    /\ UNCHANGED <<err, config, train_iterator, batch, done, atStart, fwd,
                   testVars>>
    /\ UNCHANGED <<rankVars, scoreVars, lossVars>>

\* optimizer.step(): the one statement that writes the parameters that
\* require a gradient; gamma and embedding_range have requires_grad=False
TrainOptimizer ==
    /\ pc = "train_optimizer"
    /\ pc' = "train_log"
    /\ entity_embedding' \in TableVals
    /\ relation_embedding' \in TableVals
    /\ tem_embedding' \in TableVals
    /\ optSteps' = optSteps + 1
    /\ UNCHANGED <<err, config, train_iterator, batch, done, atStart, fwd,
                   testVars>>
    /\ UNCHANGED <<rankVars, scoreVars, lossVars>>

\* log = {...}; return log
TrainReturn ==
    /\ pc = "train_log"
    /\ pc' = "train_returned"
    /\ UNCHANGED <<err, config, tables, train_iterator, batch, done, optSteps,
                   atStart, fwd, testVars>>
    /\ UNCHANGED <<rankVars, scoreVars, lossVars>>

(***************************************************************************)
(* KGEModel.test_step.  test_batch_size is 1: a batch is one example.      *)
(***************************************************************************)
trainVars == <<train_iterator, batch, done, optSteps>>

\* n batches of one mode
Batches(n, mode) == [i \in 1 .. n |-> mode]

\* model.eval(); the two loaders; logs = []
TestStart ==
    /\ pc \in Rest
    /\ \E n \in 0 .. MaxTest :
          /\ test_triples' = n
          /\ test_dataset_list' =
                 Batches(n, "head-batch") \o Batches(n, "tail-batch")
    /\ pc' = "test_loop"
    /\ err' = "none"
    /\ logs' = <<>>
    /\ metrics' = NoMetrics
    /\ engineModes' = <<>>
    /\ atStart' = Snapshot
    /\ fwd' = NoForward
    /\ batch' = NoBatch /\ done' = {} /\ optSteps' = 0
    /\ UNCHANGED <<config, tables, train_iterator>>
    /\ UNCHANGED <<score, filter_bias, positive_arg, argsort, ranking>>
    /\ UNCHANGED <<scoreVars, lossVars>>

\* for positive_sample, negative_sample, filter_bias, mode in test_dataset:
\*     score = model((positive_sample, negative_sample), mode)
\* forward binds the tuple to sample_triple and the mode string to sample_tem;
\* negative_sample and mode keep their defaults, None and 'single'.
TestScore ==
    /\ pc = "test_loop"
    /\ test_dataset_list # <<>>
    /\ LET mode == Head(test_dataset_list)
           res == Forward("tuple", "str", "None", "single")
       IN  /\ fwd' = [mode |-> "single", result |-> res]
           /\ engineModes' = Append(engineModes, <<mode, "single">>)
           /\ IF res = "score"
              THEN /\ pc' = "test_scored"
                   /\ score' \in [Entities -> ScoreVals]
                   /\ positive_arg' \in Entities
                   /\ filter_bias' \in {b \in [Entities -> BiasVals] :
                                           b[positive_arg'] = 0}
                   /\ UNCHANGED err
              ELSE /\ pc' = "test_failed"
                   /\ err' = res
                   /\ UNCHANGED <<score, positive_arg, filter_bias>>
    /\ test_dataset_list' = Tail(test_dataset_list)
    /\ UNCHANGED <<config, tables, trainVars, atStart, test_triples>>
    /\ UNCHANGED <<argsort, ranking, logs, metrics>>
    /\ UNCHANGED <<scoreVars, lossVars>>

\* score += filter_bias; argsort; the position of the true entity; the
\* assertion; the record appended to logs
RankStage ==
    /\ pc = "test_scored"
    /\ score' = AddFilterBias(score, filter_bias)
    /\ \E p \in Argsort(Entities, AddFilterBias(score, filter_bias)) :
          LET nz == Nonzero(p, AddFilterBias(score, filter_bias), positive_arg)
          IN  /\ argsort' = p
              /\ IF Cardinality(nz) = 1
                 THEN /\ ranking' = Ranking(CHOOSE i \in nz : TRUE)
                      /\ logs' = Append(logs, LogRecord(ranking'))
                      /\ pc' = "test_loop"
                      /\ UNCHANGED err
                 ELSE /\ ranking' = 0
                      /\ pc' = "test_failed"
                      /\ err' = "AssertionError"
                      /\ UNCHANGED logs
    /\ UNCHANGED <<config, tables, trainVars, atStart, fwd, testVars>>
    /\ UNCHANGED <<filter_bias, positive_arg, metrics>>
    /\ UNCHANGED <<scoreVars, lossVars>>

\* metrics[metric] = sum([log[metric] for log in logs])/len(logs)
TestAggregate ==
    /\ pc = "test_loop"
    /\ test_dataset_list = <<>>
    /\ IF logs = <<>>
       THEN /\ pc' = "test_failed"
            /\ err' = "IndexError"
            /\ UNCHANGED metrics
       ELSE /\ pc' = "test_returned"
            /\ metrics' = [m \in MetricNames |-> MetricMean(logs, m)]
            /\ UNCHANGED err
    /\ UNCHANGED <<config, tables, trainVars, atStart, fwd, testVars>>
    /\ UNCHANGED <<score, filter_bias, positive_arg, argsort, ranking, logs>>
    /\ UNCHANGED <<scoreVars, lossVars>>

Next ==
    \/ Construct
    \/ ForwardCall
    \/ TrainStart
    \/ TrainNext
    \/ TrainNegative
    \/ TrainPositive
    \/ TrainLoss
    \/ TrainBackward
    \/ TrainOptimizer
    \/ TrainReturn
    \/ TestStart
    \/ TestScore
    \/ TestAggregate

Spec == Init /\ [][Next]_vars

(***************************************************************************)
(* RankSpec: the ranking stage on one example.  The model object is a      *)
(* constructed one; the example's score row, filter bias and true entity   *)
(* are the inputs, the example is the last of the evaluation.              *)
(***************************************************************************)
ProgAt(position) ==
    /\ pc = position /\ err = "none" /\ model_name = "TATransE"
    /\ double_entity_embedding = FALSE /\ double_relation_embedding = FALSE
    /\ double_tem_embedding = FALSE
    /\ hidden_dim = 1 /\ gamma = 6 /\ embedding_range = 8
    /\ entity_embedding = 1 /\ relation_embedding = 1 /\ tem_embedding = 1
    /\ train_iterator = 0
    /\ batch = NoBatch /\ done = {} /\ optSteps = 0
    /\ atStart = <<1, 1, 1, 6, 8>>
    /\ fwd = NoForward
    /\ test_triples = 0 /\ test_dataset_list = <<>> /\ engineModes = <<>>

RankInit ==
    /\ ProgAt("test_scored")
    /\ score \in [Entities -> ScoreVals]
    /\ positive_arg \in Entities
    /\ filter_bias \in {b \in [Entities -> BiasVals] : b[positive_arg] = 0}
    /\ argsort = <<>> /\ ranking = 0 /\ logs = <<>> /\ metrics = NoMetrics
    /\ ScoreIdle /\ LossIdle

RankNext == RankStage \/ TestAggregate

RankSpec == RankInit /\ [][RankNext]_vars

(***************************************************************************)
(* ScoreSpec: DistMult and ComplEx on the embeddings of one triple.  The   *)
(* vectors are double-width (2 * HalfDim components), the width ComplEx    *)
(* requires and DistMult accepts.                                          *)
(***************************************************************************)
HalfDim == 1
CompVals == {-1, 0, 2}
Vectors == [1 .. 2 * HalfDim -> CompVals]

RECURSIVE SumTo(_, _)
\* tensor.sum(dim = 2): the sum of f[1] .. f[n]
SumTo(f, n) == IF n = 0 THEN 0 ELSE f[n] + SumTo(f, n - 1)

\* torch.chunk(x, 2, dim=2): the first and the second half
Re(x) == [i \in 1 .. Len(x) \div 2 |-> x[i]]
Im(x) == [i \in 1 .. Len(x) \div 2 |-> x[i + Len(x) \div 2]]

DistMult(h, r, t, mode) ==
    LET prod == [i \in 1 .. Len(h) |->
                    IF mode = "head-batch" THEN h[i] * (r[i] * t[i])
                    ELSE (h[i] * r[i]) * t[i]]
    IN  SumTo(prod, Len(h))

\* ComplEx with the head-batch im_score added instead of subtracted
ComplExSignSlip(h, r, t, mode) ==
    LET n == Len(h) \div 2
        prod == [i \in 1 .. n |->
                    IF mode = "head-batch"
                    THEN LET re_score == Re(r)[i] * Re(t)[i] + Im(r)[i] * Im(t)[i]
                             im_score == Re(r)[i] * Im(t)[i] + Im(r)[i] * Re(t)[i]
                         IN  Re(h)[i] * re_score + Im(h)[i] * im_score
                    ELSE LET re_score == Re(h)[i] * Re(r)[i] - Im(h)[i] * Im(r)[i]
                             im_score == Re(h)[i] * Im(r)[i] + Im(h)[i] * Re(r)[i]
                         IN  re_score * Re(t)[i] + im_score * Im(t)[i]]
    IN  SumTo(prod, n)

ComplEx(h, r, t, mode) ==
    LET n == Len(h) \div 2
        prod == [i \in 1 .. n |->
                    IF mode = "head-batch"
                    THEN LET re_score == Re(r)[i] * Re(t)[i] + Im(r)[i] * Im(t)[i]
                             im_score == Re(r)[i] * Im(t)[i] - Im(r)[i] * Re(t)[i]
                         IN  Re(h)[i] * re_score + Im(h)[i] * im_score
                    ELSE LET re_score == Re(h)[i] * Re(r)[i] - Im(h)[i] * Im(r)[i]
                             im_score == Re(h)[i] * Im(r)[i] + Im(h)[i] * Re(r)[i]
                         IN  re_score * Re(t)[i] + im_score * Im(t)[i]]
    IN  SumTo(prod, n)

ScoreInit ==
    /\ ProgAt("idle")
    /\ RankIdle /\ LossIdle
    /\ head \in Vectors /\ relation \in Vectors /\ tail \in Vectors
    /\ scores = <<>>

\* the scoring functions applied to the triple in each mode
ScoreTriple ==
    /\ scores = <<>>
    /\ scores' = [DistMult |-> [m \in Modes |-> DistMult(head, relation, tail, m)],
                  ComplEx |-> [m \in Modes |-> ComplEx(head, relation, tail, m)]]
    /\ UNCHANGED <<progVars, rankVars, lossVars, head, relation, tail>>

ScoreNext == ScoreTriple

ScoreSpec == ScoreInit /\ [][ScoreNext]_vars

(***************************************************************************)
(* LossSpec: the loss of train_step on the scores of one batch.            *)
(***************************************************************************)
BatchSize == 2
NegSize == 2
RawScores == {-1, 0, 1}
WeightVals == {1, 2}

\* F.logsigmoid, in tenths: log(1/(1 + exp(-x))) at x = -1, 0, 1
LogSigmoid(x) ==
    CASE x = -1 -> <<-13, 10>>
      [] x = 0 -> <<-7, 10>>
      [] x = 1 -> <<-3, 10>>

\* exp, in tenths, at x = -1, 0, 1
Exp(x) ==
    CASE x = -1 -> <<4, 10>>
      [] x = 0 -> <<10, 10>>
      [] x = 1 -> <<27, 10>>

\* F.softmax(row * adversarial_temperature, dim = 1)
Softmax(row, temperature) ==
    LET e == [j \in 1 .. Len(row) |-> Exp(row[j] * temperature)]
    IN  [j \in 1 .. Len(row) |-> FracDiv(e[j], FracSum(e))]

\* the reduction of one example's negative scores
ReduceNegative(row, a) ==
    IF a.negative_adversarial_sampling
    THEN LET w == Softmax(row, a.adversarial_temperature)
         IN  FracSum([j \in 1 .. Len(row) |->
                         FracMul(w[j], LogSigmoid(-row[j]))])
    ELSE FracMean([j \in 1 .. Len(row) |-> LogSigmoid(-row[j])])

\* (subsampling_weight * x).sum()/subsampling_weight.sum()
WeightedMean(w, x) ==
    FracDiv(FracSum([i \in 1 .. Len(x) |-> FracScale(w[i], x[i])]),
            <<SumTo(w, Len(w)), 1>>)

\* positive_sample_loss or negative_sample_loss from the per-example terms
SampleLoss(x, w, uni_weight) ==
    IF uni_weight THEN FracMean(x) ELSE FracNeg(WeightedMean(w, x))

\* args.regularization * (entity_embedding.norm(p = 3)**3 +
\*                        relation_embedding.norm(p = 3).norm(p = 3)**3)
Regularization(a) ==
    a.regularization * (Abs(entity_embedding) * Abs(entity_embedding)
                            * Abs(entity_embedding)
                        + Abs(relation_embedding) * Abs(relation_embedding)
                            * Abs(relation_embedding))

Losses(neg, pos, w, a) ==
    LET negative == [i \in 1 .. Len(neg) |-> ReduceNegative(neg[i], a)]
        positive == [i \in 1 .. Len(pos) |-> LogSigmoid(pos[i])]
        positive_sample_loss == SampleLoss(positive, w, a.uni_weight)
        negative_sample_loss == SampleLoss(negative, w, a.uni_weight)
        loss == FracDiv(FracAdd(positive_sample_loss, negative_sample_loss),
                        <<2, 1>>)
    IN  [positive_sample_loss |-> positive_sample_loss,
         negative_sample_loss |-> negative_sample_loss,
         loss |-> IF a.regularization # 0
                  THEN FracAdd(loss, <<Regularization(a), 1>>)
                  ELSE loss]

ArgsGiven ==
    [uni_weight : BOOLEAN, negative_adversarial_sampling : BOOLEAN,
     adversarial_temperature : {1}, regularization : {0, 1}]

LossInit ==
    /\ ProgAt("train_loss")
    /\ RankIdle /\ ScoreIdle
    /\ negative_score \in [1 .. BatchSize -> [1 .. NegSize -> RawScores]]
    /\ positive_score \in [1 .. BatchSize -> RawScores]
    /\ subsampling_weight \in [1 .. BatchSize -> WeightVals]
    /\ args \in ArgsGiven
    /\ log = <<>>

\* lines 372-401 and the log of lines 407-412
ComputeLoss ==
    /\ log = <<>>
    /\ log' = Losses(negative_score, positive_score, subsampling_weight, args)
    /\ UNCHANGED <<progVars, rankVars, scoreVars>>
    /\ UNCHANGED <<negative_score, positive_score, subsampling_weight, args>>

LossNext == ComputeLoss

LossSpec == LossInit /\ [][LossNext]_vars

(***************************************************************************)
(* Properties of the ranking stage (RankSpec).  After RankStage, score is  *)
(* the final score row (the raw score plus the filter bias) and argsort    *)
(* the order the sort returned.                                            *)
(***************************************************************************)
Sorted == argsort # <<>>

\* the true entity's final score is strictly the largest
StrictMax == \A e \in Entities \ {positive_arg} : score[e] < score[positive_arg]

\* the final scores strictly decrease with the entity id
StrictlyDecreasing == \A e, f \in Entities : e < f => score[e] > score[f]

\* another candidate has the true entity's final score
Tie == \E e \in Entities \ {positive_arg} : score[e] = score[positive_arg]

\* C3: after the ranking stage, a true entity whose final score is strictly
\* the largest has rank 1, and when the final scores strictly decrease with
\* the entity id the true entity i has rank i + 1.
C3_RankOfMaxAndDecreasing ==
    Sorted => /\ StrictMax => ranking = 1
              /\ StrictlyDecreasing => ranking = positive_arg + 1

C3_Witness ==
    Sorted /\ StrictlyDecreasing /\ positive_arg = 1 /\ ranking = 2

\* the descending order of the row that places equal scores by entity id
ByEntityId(s) ==
    CHOOSE p \in Argsort(Entities, s) :
        \A i, j \in 1 .. Len(p) : (i < j /\ s[p[i]] = s[p[j]]) => p[i] < p[j]

Above == {e \in Entities : score[e] > score[positive_arg]}
AtLeast == {e \in Entities : score[e] >= score[positive_arg]}

Alternatives ==
    {a \in Entities \ {positive_arg} :
        /\ filter_bias[a] = 0
        /\ score[a] - filter_bias[a]
               > score[positive_arg] - filter_bias[positive_arg]}

\* the ranks the ranking stage can compute for the true entity on the
\* candidates S
RanksOn(S) ==
    {Ranking(CHOOSE i \in Nonzero(p, score, positive_arg) : TRUE) :
        p \in Argsort(S, score)}

C1_ForwardReturnsScore ==
    (pc = "forward_done" /\ fwd.mode \in Modes) => fwd.result = "score"

\* the configurations the constructor is to refuse
CtorViolation ==
    \/ model_name \notin ModelNames
    \/ model_name = "RotatE"
           /\ ~(double_entity_embedding /\ ~double_relation_embedding)
    \/ model_name = "ComplEx"
           /\ ~(double_entity_embedding /\ double_relation_embedding)

\* C2: once the constructor has run, it has raised the configuration error
\* exactly for the refused configurations, and no forward call was ever
\* made on (or raised a configuration error for) a refused configuration.
C2_CtorChecks ==
    pc # "new" =>
        /\ (pc = "ctor_failed" /\ err = "ValueError") <=> CtorViolation
        /\ pc = "ctor_failed" <=> err = "ValueError" /\ fwd = NoForward
        /\ CtorViolation => fwd = NoForward
        /\ (fwd.mode \in Modes) => fwd.result # "ValueError"

C2_Witness ==
    /\ pc = "ctor_failed" /\ err = "ValueError"
    /\ model_name = "RotatE"
    /\ double_entity_embedding /\ double_relation_embedding

\* C8: a test_step on a non-empty set of test triples ends by returning;
\* every batch was scored in the mode of its loader; logs holds one record
\* per example and direction, and each metric is the mean over them.
C8_TestStepAggregates ==
    (pc \in {"test_returned", "test_failed"} /\ test_triples > 0) =>
        /\ pc = "test_returned"
        /\ Len(logs) = 2 * test_triples
        /\ \A i \in 1 .. Len(engineModes) : engineModes[i][1] = engineModes[i][2]
        /\ metrics = [m \in MetricNames |-> MetricMean(logs, m)]

\* positions of a train_step and of a test_step
TrainPositions == {"train_next", "train_negative", "train_positive",
                   "train_loss", "train_backward", "train_optimizer",
                   "train_log", "train_returned", "train_failed"}
TestPositions == {"test_loop", "test_scored", "test_returned", "test_failed"}

\* C9: after construction the tables change only in the optimizer step of a
\* train_step, taken after the negative forward pass, the positive forward
\* pass and the backward pass, and at most once in the step; a train_step
\* that returns has taken it exactly once; a train_step that failed and any
\* test_step have left the tables, gamma and embedding_range as they were
\* when the call began; gamma and embedding_range never change.
C9_TablesFrame ==
    /\ [](/\ pc = "train_returned" => optSteps = 1
          /\ pc \in TrainPositions => optSteps <= 1
          /\ pc = "train_failed" => (optSteps = 0 /\ Snapshot = atStart)
          /\ pc \in TestPositions => Snapshot = atStart)
    /\ [][(pc # "new" /\ tables' # tables) =>
              /\ pc = "train_optimizer"
              /\ {"negative", "positive", "backward"} \subseteq done
              /\ optSteps = 0]_vars
    /\ [][pc # "new" =>
              (gamma' = gamma /\ embedding_range' = embedding_range)]_vars

C9_Witness ==
    /\ pc = "train_returned" /\ optSteps = 1
    /\ entity_embedding # atStart[1]
    /\ relation_embedding # atStart[2]
    /\ tem_embedding # atStart[3]

(***************************************************************************)
(* Properties of the scoring functions (ScoreSpec).                        *)
(***************************************************************************)
\* C7: for the embedding vectors of one triple, DistMult in head-batch mode
\* equals DistMult in tail-batch mode, and so does ComplEx.
C7_ModesAgree ==
    scores # <<>> =>
        /\ scores.DistMult["head-batch"] = scores.DistMult["tail-batch"]
        /\ scores.ComplEx["head-batch"] = scores.ComplEx["tail-batch"]

C7_Witness ==
    /\ scores # <<>>
    /\ scores.ComplEx["head-batch"] # 0
    /\ scores.DistMult["head-batch"] # 0
    /\ \A i \in 1 .. 2 * HalfDim :
          head[i] # 0 /\ relation[i] # 0 /\ tail[i] # 0

(***************************************************************************)
(* Properties of the loss (LossSpec).                                      *)
(***************************************************************************)
EqualWeights ==
    \A i, j \in 1 .. BatchSize : subsampling_weight[i] = subsampling_weight[j]

\* C10: on a batch whose subsampling weights are all equal, the three
\* losses are those the other setting of uni_weight gives, and both sample
\* losses are non-negative.
C10_SameSignConvention ==
    (log # <<>> /\ EqualWeights) =>
        /\ log = Losses(negative_score, positive_score, subsampling_weight,
                        [args EXCEPT !.uni_weight = ~@])
        /\ log.positive_sample_loss[1] >= 0
        /\ log.negative_sample_loss[1] >= 0

====
